---------------------------- MODULE Spec2Model ----------------------------
(***************************************************************************)
(* Model of the Garmin ingestion/query gateway:                            *)
(*   src/api/resources/garmin_activity.py  (POST /activity,                *)
(*       POST /activity/details, GET /activity/geojson, SQL dialect)       *)
(*   src/api/resources/garmin_geojson.py   (GET /activity/geojson, Flux)   *)
(*   src/api/__init__.py                   (blueprint registration)        *)
(* One behaviour is the handling of one HTTP request against the store,    *)
(* which is a black box whose write and query calls may raise.             *)
(***************************************************************************)
EXTENDS Integers, Sequences, FiniteSets, TLC

VARIABLES
    ALLOWED_ACTIVITY_TYPES, \* module global of garmin_activity.py
    route,                  \* which resource method handles the request
    body,                   \* request.json of an ingest request
    result,                 \* the rows influx_client.query / query_api.query returns
    pc,                     \* position of the handler
    idx,                    \* loop variable: activity index / batch offset i
    phase,                  \* which write_in_batches call of details.post runs
    summary_points,         \* local list of GarminActivityDetails.post
    sample_points,          \* local list of GarminActivityDetails.post
    calls,                  \* every client.write call made, in call order
    inflight,               \* indices of calls that have not returned yet
    store,                  \* the write calls the store committed, in order
    records,                \* local list of GarminActivityGeoJSON.get
    activities,             \* local dict of GarminActivityGeoJSON.get (insertion order)
    exc,                    \* str(e) of the exception the handler caught
    response                \* what the handler returned

vars == <<ALLOWED_ACTIVITY_TYPES, route, body, result, pc, idx, phase, summary_points,
          sample_points, calls, inflight, store, records, activities, exc, response>>

-----------------------------------------------------------------------------
(* JSON scalars.  Python's None, numbers and strings are kept apart so that *)
(* "is not None" and truthiness are different tests, as they are in Python. *)

Null == [t |-> "null"]
Num(n) == [t |-> "num", v |-> n]
Str(s) == [t |-> "str", v |-> s]
Time(n) == [t |-> "time", v |-> n]

\* bool(x) of Python: None, 0 / 0.0 and "" are falsy; a datetime is truthy.
Truthy(x) ==
    CASE x.t = "null" -> FALSE
      [] x.t = "num"  -> x.v # 0
      [] x.t = "str"  -> x.v # ""
      [] OTHER        -> TRUE

\* dict.get(k, default)
GetD(d, k, default) == IF k \in DOMAIN d THEN d[k] ELSE default

\* dict.get(k): an absent key reads as None
Get(d, k) == GetD(d, k, Null)

Min(a, b) == IF a <= b THEN a ELSE b
Max(a, b) == IF a >= b THEN a ELSE b


-----------------------------------------------------------------------------
(* Error messages are character sequences, so that '"503" in str(e)' is a   *)
(* substring search.                                                        *)

NEEDLE_503 == <<"5", "0", "3">>

\* a prefix test in place of the substring test
StartsWith(msg, needle) ==
    Len(msg) >= Len(needle) /\ SubSeq(msg, 1, Len(needle)) = needle

\* needle in msg  (Python's substring test)
Contains(msg, needle) ==
    \E i \in 1..(Len(msg) - Len(needle) + 1) :
        SubSeq(msg, i, i + Len(needle) - 1) = needle

\* str(e) of the AttributeError raised by None.get(...)
ATTRIBUTE_ERROR == <<"N", "o", "n", "e", "T", "y", "p", "e">>

\* str(e) of the ValueError raised by float("abc")
VALUE_ERROR == <<"f", "l", "o", "a", "t">>

\* str(e) of the TypeError raised by min(None, None)
TYPE_ERROR == <<"<", "N", "o", "n", "e">>

-----------------------------------------------------------------------------
(* garmin_activity.py: helpers                                              *)

MAX_BATCH_SIZE == 500

\* a filter that fails closed: an empty allow-set lets nothing through
is_activity_allowed_closed(activity_type) ==
    activity_type \in ALLOWED_ACTIVITY_TYPES

is_activity_allowed(activity_type) ==
    \/ ALLOWED_ACTIVITY_TYPES = {}
    \/ activity_type \in ALLOWED_ACTIVITY_TYPES

filter_fields(data, exclude_keys) ==
    [k \in {j \in DOMAIN data : j \notin exclude_keys /\ data[j] # Null} |-> data[k]]

filter_tags(tags) ==
    [k \in {j \in DOMAIN tags : tags[j] # Null} |-> tags[k]]

SUMMARY_TAG_KEYS == {"userId", "activityType", "activityId", "deviceName"}
SAMPLE_TAG_KEYS == {"userId", "activityType", "activityId"}

\* the tags dict literal of GarminActivity.post: stored as built
ActivityTags(activity) ==
    [k \in SUMMARY_TAG_KEYS |-> Get(activity, k)]

\* summary_point of GarminActivity.post
ActivityPoint(activity) ==
    [measurement |-> "garmin_activity",
     tags        |-> ActivityTags(activity),
     fields      |-> filter_fields(activity, SUMMARY_TAG_KEYS),
     time        |-> Get(activity, "startTimeInSeconds")]

-----------------------------------------------------------------------------
(* GarminActivityDetails.post: the loop that prepares the points            *)

EMPTY_DICT == [k \in {} |-> Null]

\* summary = detail.get("summary", {})
DetailSummary(detail) == GetD(detail, "summary", EMPTY_DICT)

\* samples = detail.get("samples", [])
DetailSamples(detail) == GetD(detail, "samples", <<>>)

\* the tags argument of filter_tags for a summary point
DetailSummaryTags(detail) ==
    [k \in SUMMARY_TAG_KEYS |->
        CASE k = "userId"       -> Get(detail, "userId")
          [] k = "activityType" -> Get(DetailSummary(detail), "activityType")
          [] k = "activityId"   -> Get(DetailSummary(detail), "activityId")
          [] OTHER              -> Get(DetailSummary(detail), "deviceName")]

\* the tags argument of filter_tags for a sample point
DetailSampleTags(detail) ==
    [k \in SAMPLE_TAG_KEYS |->
        CASE k = "userId"       -> Get(detail, "userId")
          [] k = "activityType" -> Get(DetailSummary(detail), "activityType")
          [] OTHER              -> Get(DetailSummary(detail), "activityId")]

DetailSummaryPoint(detail) ==
    [measurement |-> "garmin_activity_details",
     tags        |-> filter_tags(DetailSummaryTags(detail)),
     fields      |-> filter_fields(DetailSummary(detail), SUMMARY_TAG_KEYS),
     time        |-> Get(DetailSummary(detail), "startTimeInSeconds")]

DetailSamplePoint(detail, sample) ==
    [measurement |-> "garmin_activity_samples",
     tags        |-> filter_tags(DetailSampleTags(detail)),
     fields      |-> filter_fields(sample, SAMPLE_TAG_KEYS),
     time        |-> Get(sample, "startTimeInSeconds")]

\* the 'continue' of the loop: a detail whose type is not allowed adds nothing
DetailAllowed(detail) ==
    is_activity_allowed(Get(DetailSummary(detail), "activityType"))

\* summary.get(...) on a summary that is null raises AttributeError
DetailRaises(detail) == DetailSummary(detail) = Null

RECURSIVE BuildSummaryPoints(_)
BuildSummaryPoints(details) ==
    IF details = <<>> THEN <<>>
    ELSE (IF DetailAllowed(Head(details))
          THEN <<DetailSummaryPoint(Head(details))>>
          ELSE <<>>) \o BuildSummaryPoints(Tail(details))

RECURSIVE BuildSamplePoints(_)
BuildSamplePoints(details) ==
    IF details = <<>> THEN <<>>
    ELSE (IF DetailAllowed(Head(details))
          THEN [j \in 1..Len(DetailSamples(Head(details))) |->
                   DetailSamplePoint(Head(details), DetailSamples(Head(details))[j])]
          ELSE <<>>) \o BuildSamplePoints(Tail(details))

-----------------------------------------------------------------------------
(* write_in_batches                                                         *)

\* a slice that runs one element too far
BatchTooLong(recs, i) == SubSeq(recs, i + 1, Min(i + MAX_BATCH_SIZE + 1, Len(recs)))

\* batch = records[i:i + MAX_BATCH_SIZE]   (i is the 0-based offset)
Batch(recs, i) == SubSeq(recs, i + 1, Min(i + MAX_BATCH_SIZE, Len(recs)))

\* the next value of i in range(0, len(records), MAX_BATCH_SIZE)
NextOffset(i) == i + MAX_BATCH_SIZE

\* client.write(database=..., record=..., write_precision=...)
WriteCall(database, record, precision) ==
    [database |-> database, record |-> record, write_precision |-> precision]

-----------------------------------------------------------------------------
(* Bounds of the model and the inputs drawn within them                     *)

MaxActivities == 2      \* longest "activities" list
MaxDetails == 2         \* longest "activityDetails" list
MaxSamples == 1001      \* longest "samples" list of one detail
MaxRows == 3            \* most rows a query returns

\* the allow-set configurations considered: the shipped one (empty) and a
\* non-empty one
AllowSets == {{}, {Str("RUNNING")}}

\* messages of the exceptions the store client may raise
StoreErrors ==
    { <<"5", "0", "3">>,
      <<"H", "T", "T", "P", " ", "5", "0", "3", "!">>,
      <<"5", "0", "0">>,
      <<"5", "3", "0", "3">>,
      <<"t", "i", "m", "e", "o", "u", "t">> }

ActivityInputs ==
    { \* every key present
      [userId |-> Str("u1"), activityType |-> Str("RUNNING"), activityId |-> Str("a1"),
       deviceName |-> Str("fenix"), startTimeInSeconds |-> Num(100),
       distanceInMeters |-> Num(5)],
      \* deviceName absent, a null measurement
      [userId |-> Str("u1"), activityType |-> Str("CYCLING"), activityId |-> Str("a2"),
       startTimeInSeconds |-> Num(200), distanceInMeters |-> Null],
      \* no startTimeInSeconds
      [userId |-> Str("u2"), activityType |-> Str("RUNNING"), activityId |-> Str("a3"),
       deviceName |-> Str("edge"), distanceInMeters |-> Num(9)],
      \* no activityType, null userId and deviceName
      [userId |-> Null, activityId |-> Str("a4"), deviceName |-> Null,
       startTimeInSeconds |-> Num(300)] }

\* the j-th sample of a generated samples list; every third has no latitude
SampleInput(j) ==
    [startTimeInSeconds |-> Num(j),
     latitudeInDegree   |-> IF j % 3 = 0 THEN Null ELSE Num(j),
     longitudeInDegree  |-> Num(7)]

SampleCounts == {1, MAX_BATCH_SIZE, MAX_BATCH_SIZE + 1, MaxSamples}

DetailInputs ==
    { [userId |-> Str("u1"),
       summary |-> [activityType |-> Str("RUNNING"), activityId |-> Str("a1"),
                    deviceName |-> Str("fenix"), startTimeInSeconds |-> Num(100),
                    distanceInMeters |-> Num(5)],
       samples |-> [j \in 1..n |-> SampleInput(j)]] : n \in SampleCounts }
    \cup
    { \* null userId and deviceName, no startTimeInSeconds, a sample without time
      [userId |-> Null,
       summary |-> [activityType |-> Str("CYCLING"), activityId |-> Str("a2"),
                    deviceName |-> Null, distanceInMeters |-> Null],
       samples |-> << [startTimeInSeconds |-> Num(1), latitudeInDegree |-> Num(0),
                       longitudeInDegree |-> Null],
                      [latitudeInDegree |-> Num(4), heartRate |-> Num(90)] >>],
      \* neither summary nor samples
      [userId |-> Str("u3")],
      \* "summary": null
      [userId |-> Str("u4"), summary |-> Null,
       samples |-> << [startTimeInSeconds |-> Num(2)] >>] }

SeqsUpTo(S, n) == UNION {[1..m -> S] : m \in 0..n}

\* request.json of POST /activity: the key absent, or a list under it
ActivityBodies ==
    {EMPTY_DICT} \cup {[activities |-> l] : l \in SeqsUpTo(ActivityInputs, MaxActivities)}

\* request.json of POST /activity/details
DetailsBodies ==
    {EMPTY_DICT} \cup {[activityDetails |-> l] : l \in SeqsUpTo(DetailInputs, MaxDetails)}

\* sample rows the store may hold for the queried user and day
RowInputs ==
    { [activityId |-> Str("a1"), activityType |-> Str("RUNNING"),
       latitudeInDegree |-> Num(5), longitudeInDegree |-> Num(7), time |-> Time(2)],
      \* a point on the equator, earlier than the others
      [activityId |-> Str("a1"), activityType |-> Str("RUNNING"),
       latitudeInDegree |-> Num(0), longitudeInDegree |-> Num(9), time |-> Time(1)],
      [activityId |-> Str("a2"), activityType |-> Str("CYCLING"),
       latitudeInDegree |-> Num(6), longitudeInDegree |-> Num(8), time |-> Time(3)],
      \* no latitude
      [activityId |-> Str("a1"), activityType |-> Str("RUNNING"),
       latitudeInDegree |-> Null, longitudeInDegree |-> Num(7), time |-> Time(4)],
      \* no activityType
      [activityId |-> Str("a2"), activityType |-> Null,
       latitudeInDegree |-> Num(3), longitudeInDegree |-> Num(4), time |-> Time(5)],
      \* a latitude that is not a number
      [activityId |-> Str("a2"), activityType |-> Str("CYCLING"),
       latitudeInDegree |-> Str("abc"), longitudeInDegree |-> Num(8), time |-> Time(6)],
      \* no timestamp
      [activityId |-> Str("a1"), activityType |-> Str("RUNNING"),
       latitudeInDegree |-> Num(2), longitudeInDegree |-> Num(1), time |-> Null],
      \* no activityId
      [activityId |-> Null, activityType |-> Str("RUNNING"),
       latitudeInDegree |-> Num(1), longitudeInDegree |-> Num(2), time |-> Time(7)] }

\* a row as result.to_pylist() of the SQL query gives it
SqlRow(r) ==
    [k \in {"latitudeInDegree", "longitudeInDegree", "time", "activityId"} |-> r[k]]

\* a row as record.values of the pivoted Flux query gives it
FluxRow(r) ==
    [k \in {"latitudeInDegree", "longitudeInDegree", "_time", "activityId",
            "activityType"} |-> IF k = "_time" THEN r.time ELSE r[k]]

SqlResults ==
    {[i \in 1..Len(l) |-> SqlRow(l[i])] : l \in SeqsUpTo(RowInputs, MaxRows)}

FluxResults ==
    {[i \in 1..Len(l) |-> FluxRow(l[i])] : l \in SeqsUpTo(RowInputs, MaxRows)}

NoResponse == [status |-> 0, body |-> EMPTY_DICT]

-----------------------------------------------------------------------------
(* Responses                                                                *)

\* the message of the 400 answers ("No activities provided", ...)
NO_INPUT == <<"N", "o">>

\* no exception was caught
NoException == <<"-">>

SERVICE_UNAVAILABLE == <<"S", "e", "r", "v", "i", "c", "e">>

ErrorResponse(status, errorMessage) ==
    [status |-> status,
     body   |-> [errorMessage |-> errorMessage, status |-> "error"]]

SuccessResponse(message) ==
    [status |-> 200, body |-> [message |-> message, status |-> "success"]]

\* the except clause of GarminActivity.post
ActivityExcept(e) == ErrorResponse(500, e)

\* the except clause of GarminActivityDetails.post
DetailsExcept(e) ==
    IF Contains(e, NEEDLE_503)
    THEN ErrorResponse(503, SERVICE_UNAVAILABLE)
    ELSE ErrorResponse(500, e)

-----------------------------------------------------------------------------
(* The store client: a write call is made, then returns or raises           *)

\* client.write(...) is entered: the call is on its way to the store
ClientWrite(call) ==
    /\ calls' = Append(calls, call)
    /\ inflight' = inflight \cup {Len(calls) + 1}
    /\ pc' = "write"

\* where the handler continues after a write that returned
AfterWrite ==
    IF route = "activity"
    THEN /\ idx' = idx + 1
         /\ pc' = "loop"
    ELSE /\ idx' = NextOffset(idx)
         /\ pc' = "batch"

\* the write returns: the store has committed the call
ClientWriteReturns ==
    /\ pc = "write"
    /\ store' = Append(store, calls[Len(calls)])
    /\ inflight' = inflight \ {Len(calls)}
    /\ AfterWrite
    /\ UNCHANGED <<ALLOWED_ACTIVITY_TYPES, route, body, result, phase, summary_points,
                   sample_points, calls, records, activities, exc, response>>

\* a write whose exception is swallowed inside the loop: the handler goes on
\* with the next chunk
ClientWriteRaisesIgnored ==
    /\ pc = "write"
    /\ inflight' = inflight \ {Len(calls)}
    /\ AfterWrite
    /\ UNCHANGED <<ALLOWED_ACTIVITY_TYPES, route, body, result, phase, summary_points,
                   sample_points, calls, store, records, activities, exc, response>>

\* the write raises: nothing of the call is committed, the handler's except
\* clause answers
ClientWriteRaises ==
    /\ pc = "write"
    /\ \E e \in StoreErrors :
          /\ exc' = e
          /\ response' = IF route = "activity" THEN ActivityExcept(e) ELSE DetailsExcept(e)
    /\ inflight' = inflight \ {Len(calls)}
    /\ pc' = "done"
    /\ UNCHANGED <<ALLOWED_ACTIVITY_TYPES, route, body, result, idx, phase,
                   summary_points, sample_points, calls, store, records, activities>>

-----------------------------------------------------------------------------
(* GarminActivity.post                                                      *)

\* activities = request.json.get("activities", [])
RequestActivities == GetD(body, "activities", <<>>)

ActivityPostStart ==
    /\ route = "activity" /\ pc = "start"
    /\ IF RequestActivities = <<>>
       THEN /\ response' = ErrorResponse(400, NO_INPUT)
            /\ pc' = "done"
            /\ idx' = idx
       ELSE /\ pc' = "loop"
            /\ idx' = 1
            /\ response' = response
    /\ exc' = exc
    /\ UNCHANGED <<ALLOWED_ACTIVITY_TYPES, route, body, result, phase, summary_points,
                   sample_points, calls, inflight, store, records, activities>>

\* one iteration of 'for activity in activities' up to its write call
ActivityPostLoop ==
    /\ route = "activity" /\ pc = "loop"
    /\ idx <= Len(RequestActivities)
    /\ IF is_activity_allowed(Get(RequestActivities[idx], "activityType"))
       THEN /\ ClientWrite(WriteCall("garmin", <<ActivityPoint(RequestActivities[idx])>>, "s"))
            /\ idx' = idx
       ELSE /\ idx' = idx + 1
            /\ UNCHANGED <<calls, inflight, pc>>
    /\ UNCHANGED <<ALLOWED_ACTIVITY_TYPES, route, body, result, phase, summary_points,
                   sample_points, store, records, activities, exc, response>>

ActivityPostReturn ==
    /\ route = "activity" /\ pc = "loop"
    /\ idx > Len(RequestActivities)
    /\ response' = SuccessResponse("Activity summaries processed successfully")
    /\ exc' = exc
    /\ pc' = "done"
    /\ UNCHANGED <<ALLOWED_ACTIVITY_TYPES, route, body, result, idx, phase,
                   summary_points, sample_points, calls, inflight, store, records,
                   activities>>

-----------------------------------------------------------------------------
(* GarminActivityDetails.post                                               *)

\* details = request.json.get("activityDetails", [])
RequestDetails == GetD(body, "activityDetails", <<>>)

\* the samples written before the summaries
PhaseOrderSwapped == <<"samples", "summaries">>

\* the order in which post calls write_in_batches
PhaseOrder == <<"summaries", "samples">>

FirstPhase == PhaseOrder[1]
SecondPhase == PhaseOrder[2]

\* the records argument of the write_in_batches call that is running
PhaseRecords ==
    IF phase = "summaries" THEN summary_points ELSE sample_points

DetailsPostStart ==
    /\ route = "details" /\ pc = "start"
    /\ IF RequestDetails = <<>>
       THEN /\ response' = ErrorResponse(400, NO_INPUT)
            /\ pc' = "done"
            /\ UNCHANGED <<summary_points, sample_points, phase, idx, exc>>
       ELSE IF \E i \in 1..Len(RequestDetails) : DetailRaises(RequestDetails[i])
       THEN /\ exc' = ATTRIBUTE_ERROR
            /\ response' = DetailsExcept(ATTRIBUTE_ERROR)
            /\ pc' = "done"
            /\ UNCHANGED <<summary_points, sample_points, phase, idx>>
       ELSE /\ summary_points' = BuildSummaryPoints(RequestDetails)
            /\ sample_points' = BuildSamplePoints(RequestDetails)
            /\ phase' = FirstPhase
            /\ idx' = 0
            /\ pc' = "batch"
            /\ UNCHANGED <<exc, response>>
    /\ UNCHANGED <<ALLOWED_ACTIVITY_TYPES, route, body, result, calls, inflight, store,
                   records, activities>>

\* write_in_batches: one iteration of the loop up to its write call
BatchWrite ==
    /\ route = "details" /\ pc = "batch"
    /\ idx < Len(PhaseRecords)
    /\ ClientWrite(WriteCall("garmin", Batch(PhaseRecords, idx), "s"))
    /\ UNCHANGED <<ALLOWED_ACTIVITY_TYPES, route, body, result, idx, phase,
                   summary_points, sample_points, store, records, activities, exc, response>>

\* write_in_batches returns; post goes on to the next call or returns 200
BatchDone ==
    /\ route = "details" /\ pc = "batch"
    /\ idx >= Len(PhaseRecords)
    /\ IF phase = FirstPhase
       THEN /\ phase' = SecondPhase
            /\ idx' = 0
            /\ UNCHANGED <<pc, exc, response>>
       ELSE /\ response' = SuccessResponse("Activity details processed successfully")
            /\ pc' = "done"
            /\ UNCHANGED <<phase, idx, exc>>
    /\ UNCHANGED <<ALLOWED_ACTIVITY_TYPES, route, body, result, summary_points,
                   sample_points, calls, inflight, store, records, activities>>

-----------------------------------------------------------------------------
(* GarminActivityGeoJSON.get, in garmin_activity.py ("sql") and in          *)
(* garmin_geojson.py ("flux").  create_app registers both blueprints under  *)
(* the same URL, so either class may be the one that serves the route.      *)

\* float(x): a number converts to itself; the strings drawn here are not
\* numerals, and float raises ValueError on them
FloatRaises(x) == x.t = "str"
Float(x) == x.v

\* 'if not all([...])' of garmin_activity.py: the row is skipped
SqlSkips(record) ==
    ~ ( /\ Truthy(Get(record, "activityId"))
        /\ Truthy(Get(record, "latitudeInDegree"))
        /\ Truthy(Get(record, "longitudeInDegree"))
        /\ Truthy(Get(record, "time")) )

\* 'if not all([...])' of garmin_geojson.py: the row is skipped
FluxSkips(record) ==
    ~ ( /\ Truthy(Get(record, "activityId"))
        /\ Truthy(Get(record, "latitudeInDegree"))
        /\ Truthy(Get(record, "longitudeInDegree"))
        /\ Truthy(Get(record, "activityType")) )

Skips(record) == IF route = "geojson_sql" THEN SqlSkips(record) ELSE FluxSkips(record)

\* float() of either coordinate raises
ConversionRaises(record) ==
    \/ FloatRaises(Get(record, "latitudeInDegree"))
    \/ FloatRaises(Get(record, "longitudeInDegree"))

\* min(start_time, timestamp) / max(...) of garmin_geojson.py raise TypeError
\* when the timestamp is None
MinMaxRaises(record) == route = "geojson_flux" /\ Get(record, "_time") = Null

\* the index of activity_id in the dict 'activities', 0 when it is not a key
KeyIndex(acts, activity_id) ==
    IF \E i \in 1..Len(acts) : acts[i].activity_id = activity_id
    THEN CHOOSE i \in 1..Len(acts) : acts[i].activity_id = activity_id
    ELSE 0

\* (longitude, latitude)
Coordinate(record) ==
    <<Float(Get(record, "longitudeInDegree")), Float(Get(record, "latitudeInDegree"))>>

\* activities[activity_id] = ... on first sight of the id
NewEntry(record) ==
    IF route = "geojson_sql"
    THEN [activity_id |-> Get(record, "activityId"), coordinates |-> <<>>]
    ELSE [activity_id   |-> Get(record, "activityId"),
          coordinates   |-> <<>>,
          start_time    |-> Get(record, "_time"),
          end_time      |-> Get(record, "_time"),
          activity_type |-> Get(record, "activityType")]

\* the append, and in garmin_geojson.py the update of start and end time
UpdatedEntry(entry, record) ==
    IF route = "geojson_sql"
    THEN [entry EXCEPT !.coordinates = Append(@, Coordinate(record))]
    ELSE [entry EXCEPT !.coordinates = Append(@, Coordinate(record)),
                       !.start_time = Time(Min(@.v, Get(record, "_time").v)),
                       !.end_time = Time(Max(@.v, Get(record, "_time").v))]

\* the body of 'for record in records' for a row that is kept
Accumulate(acts, record) ==
    LET i == KeyIndex(acts, Get(record, "activityId")) IN
    IF i = 0
    THEN Append(acts, UpdatedEntry(NewEntry(record), record))
    ELSE [acts EXCEPT ![i] = UpdatedEntry(@, record)]

\* properties={...} of the Feature
SqlProperties(entry) == [activityID |-> entry.activity_id]

FluxProperties(entry) ==
    [activityId   |-> entry.activity_id,
     activityType |-> entry.activity_type,
     start_time   |-> entry.start_time,
     end_time     |-> entry.end_time]

FeatureOf(entry) ==
    [type       |-> "Feature",
     geometry   |-> [type |-> "LineString", coordinates |-> entry.coordinates],
     properties |-> IF route = "geojson_sql" THEN SqlProperties(entry)
                    ELSE FluxProperties(entry)]

\* 'for activity_id, ... in activities.items()': entries without coordinates
\* are passed over
RECURSIVE Features(_)
Features(acts) ==
    IF acts = <<>> THEN <<>>
    ELSE (IF Head(acts).coordinates = <<>> THEN <<>> ELSE <<FeatureOf(Head(acts))>>)
         \o Features(Tail(acts))

GeoExcept(e) == ErrorResponse(500, e)

\* the query is issued: it returns its rows, or raises
GeoQuery ==
    /\ route \in {"geojson_sql", "geojson_flux"} /\ pc = "start"
    /\ \/ /\ records' = result
          /\ idx' = 1
          /\ pc' = "rows"
          /\ UNCHANGED <<exc, response>>
       \/ /\ \E e \in StoreErrors : exc' = e /\ response' = GeoExcept(e)
          /\ pc' = "done"
          /\ UNCHANGED <<records, idx>>
    /\ UNCHANGED <<ALLOWED_ACTIVITY_TYPES, route, body, result, phase, summary_points,
                   sample_points, calls, inflight, store, activities>>

\* one iteration of 'for record in records'
GeoRow ==
    /\ route \in {"geojson_sql", "geojson_flux"} /\ pc = "rows"
    /\ idx <= Len(records)
    /\ IF Skips(records[idx])
       THEN /\ idx' = idx + 1
            /\ UNCHANGED <<activities, exc, response, pc>>
       ELSE IF ConversionRaises(records[idx])
       THEN /\ exc' = VALUE_ERROR
            /\ response' = GeoExcept(VALUE_ERROR)
            /\ pc' = "done"
            /\ UNCHANGED <<activities, idx>>
       ELSE IF MinMaxRaises(records[idx])
       THEN /\ exc' = TYPE_ERROR
            /\ response' = GeoExcept(TYPE_ERROR)
            /\ pc' = "done"
            /\ UNCHANGED <<activities, idx>>
       ELSE /\ activities' = Accumulate(activities, records[idx])
            /\ idx' = idx + 1
            /\ UNCHANGED <<exc, response, pc>>
    /\ UNCHANGED <<ALLOWED_ACTIVITY_TYPES, route, body, result, phase, summary_points,
                   sample_points, calls, inflight, store, records>>

\* the features are built and returned
GeoReturn ==
    /\ route \in {"geojson_sql", "geojson_flux"} /\ pc = "rows"
    /\ idx > Len(records)
    /\ response' = [status |-> 200,
                    body   |-> [type |-> "FeatureCollection",
                                features |-> Features(activities)]]
    /\ exc' = exc
    /\ pc' = "done"
    /\ UNCHANGED <<ALLOWED_ACTIVITY_TYPES, route, body, result, idx, phase,
                   summary_points, sample_points, calls, inflight, store, records,
                   activities>>

-----------------------------------------------------------------------------

Init ==
    /\ \/ /\ route = "activity"
          /\ ALLOWED_ACTIVITY_TYPES \in AllowSets
          /\ body \in ActivityBodies
          /\ result = <<>>
       \/ /\ route = "details"
          /\ ALLOWED_ACTIVITY_TYPES \in AllowSets
          /\ body \in DetailsBodies
          /\ result = <<>>
       \/ /\ route = "geojson_sql"
          /\ ALLOWED_ACTIVITY_TYPES = {}
          /\ body = EMPTY_DICT
          /\ result \in SqlResults
       \/ /\ route = "geojson_flux"
          /\ ALLOWED_ACTIVITY_TYPES = {}
          /\ body = EMPTY_DICT
          /\ result \in FluxResults
    /\ pc = "start"
    /\ idx = 0
    /\ phase = "none"
    /\ summary_points = <<>>
    /\ sample_points = <<>>
    /\ calls = <<>>
    /\ inflight = {}
    /\ store = <<>>
    /\ records = <<>>
    /\ activities = <<>>
    /\ exc = NoException
    /\ response = NoResponse

Next ==
    \/ ActivityPostStart
    \/ ActivityPostLoop
    \/ ActivityPostReturn
    \/ DetailsPostStart
    \/ BatchWrite
    \/ BatchDone
    \/ ClientWriteReturns
    \/ ClientWriteRaises
    \/ GeoQuery
    \/ GeoRow
    \/ GeoReturn

Spec == Init /\ [][Next]_vars

-----------------------------------------------------------------------------
(* Properties                                                               *)

\* ceil(n / d)
CeilDiv(n, d) == (n + d - 1) \div d

\* the batches of a list of write calls, concatenated in call order
RECURSIVE Flatten(_)
Flatten(cs) ==
    IF cs = <<>> THEN <<>> ELSE Head(cs).record \o Flatten(Tail(cs))

IsPrefix(s, t) == Len(s) <= Len(t) /\ s = SubSeq(t, 1, Len(s))

SummaryCalls == CeilDiv(Len(summary_points), 500)
SampleCalls == CeilDiv(Len(sample_points), 500)

IsSummaryCall(c) == \E j \in 1..Len(c.record) : c.record[j].measurement = "garmin_activity_details"
IsSampleCall(c) == \E j \in 1..Len(c.record) : c.record[j].measurement = "garmin_activity_samples"

\* a write call has returned by raising
WriteFailed == inflight = {} /\ Len(store) < Len(calls)

C2_AbortOnFailure ==
    (route = "details" /\ WriteFailed) =>
        /\ pc = "done"
        /\ response.status \in {500, 503}
        /\ response.body.status = "error"
        /\ Len(calls) = Len(store) + 1
        /\ store = SubSeq(calls, 1, Len(calls) - 1)
        /\ IsPrefix(Flatten(calls), summary_points \o sample_points)

\* the write of a chunk after the first failed while chunks were still to be
\* sent
C2_Witness ==
    /\ route = "details" /\ WriteFailed
    /\ Len(store) >= 2
    /\ Len(Flatten(calls)) < Len(summary_points) + Len(sample_points)

\* C7: the writes of a details request are sequential and ordered.  At most
\* one write call is in flight, no summary chunk is sent after a sample
\* chunk, and a sample chunk is sent only when the store has committed every
\* summary chunk.
C7_Sequential ==
    route = "details" =>
        /\ Cardinality(inflight) <= 1
        /\ \A i, j \in 1..Len(calls) :
              (i < j /\ IsSampleCall(calls[i])) => ~ IsSummaryCall(calls[j])
        /\ (\E i \in 1..Len(calls) : IsSampleCall(calls[i])) =>
              /\ Len(store) >= SummaryCalls
              /\ Flatten(SubSeq(store, 1, SummaryCalls)) = summary_points
        /\ (summary_points # <<>> /\ calls # <<>>) => IsSummaryCall(calls[1])

\* a sample chunk is in flight after the summary chunk was committed
C7_Witness ==
    /\ route = "details"
    /\ inflight # {}
    /\ Len(store) >= 2
    /\ IsSummaryCall(store[1])
    /\ IsSampleCall(calls[Len(calls)])

\* "503" occurs in the message
Has503(msg) ==
    \E i \in 1..Len(msg) :
        /\ i + 2 <= Len(msg)
        /\ msg[i] = "5" /\ msg[i + 1] = "0" /\ msg[i + 2] = "3"

\* C8: status codes of POST /activity/details.  An empty or absent
\* activityDetails list is answered 400 with status "error" and no write
\* call; a caught exception is answered 503 when its message contains "503"
\* and 500 otherwise; 200 with status "success" is answered only when the
\* list was not empty, nothing raised and every write call was committed.
C8_DetailsStatus ==
    (route = "details" /\ pc = "done") =>
        /\ response.status \in {200, 400, 500, 503}
        /\ RequestDetails = <<>> =>
              /\ response.status = 400
              /\ response.body.status = "error"
              /\ calls = <<>>
        /\ (RequestDetails # <<>> /\ exc # NoException) =>
              /\ response.status = IF Has503(exc) THEN 503 ELSE 500
              /\ response.body.status = "error"
        /\ WriteFailed => exc # NoException
        /\ (RequestDetails # <<>> /\ exc = NoException) =>
              /\ response.status = 200
              /\ response.body.status = "success"
              /\ store = calls

\* a write raised with a message that holds "503" in its middle and the
\* answer was 503
C8_Witness ==
    /\ route = "details" /\ pc = "done"
    /\ WriteFailed
    /\ Has503(exc) /\ SubSeq(exc, 1, 3) # <<"5", "0", "3">>
    /\ response.status = 503

\* the tag a point carries for the activity type (None when it has none)
PointType(point) == Get(point.tags, "activityType")

\* the allow-set lets the type through
Passes(activity_type) ==
    ALLOWED_ACTIVITY_TYPES = {} \/ activity_type \in ALLOWED_ACTIVITY_TYPES

\* the number of elements of s (dicts with an activityType at path) that pass
RECURSIVE PassingActivities(_)
PassingActivities(s) ==
    IF s = <<>> THEN 0
    ELSE (IF Passes(Get(Head(s), "activityType")) THEN 1 ELSE 0)
         + PassingActivities(Tail(s))

RECURSIVE PassingDetails(_)
PassingDetails(s) ==
    IF s = <<>> THEN 0
    ELSE (IF Passes(Get(GetD(Head(s), "summary", EMPTY_DICT), "activityType")) THEN 1 ELSE 0)
         + PassingDetails(Tail(s))

RECURSIVE PassingSamples(_)
PassingSamples(s) ==
    IF s = <<>> THEN 0
    ELSE (IF Passes(Get(GetD(Head(s), "summary", EMPTY_DICT), "activityType"))
          THEN Len(GetD(Head(s), "samples", <<>>)) ELSE 0)
         + PassingSamples(Tail(s))

\* C9: activity filtering.  With an empty allow-set every activity and every
\* detail produces its points, whatever its type (null included); with a
\* non-empty one every point written carries a type of the set, POST
\* /activity writes one point per activity of a listed type, and POST
\* /activity/details builds one summary point per detail of a listed type
\* and sample points only for the samples of those details.
C9_Filtering ==
    /\ route \in {"activity", "details"} =>
          \A c \in 1..Len(calls) : \A j \in 1..Len(calls[c].record) :
              Passes(PointType(calls[c].record[j]))
    /\ (route = "activity" /\ response.status = 200) =>
          /\ Len(calls) = PassingActivities(RequestActivities)
          /\ ALLOWED_ACTIVITY_TYPES = {} => Len(calls) = Len(RequestActivities)
    /\ (route = "details" /\ phase # "none") =>
          /\ Len(summary_points) = PassingDetails(RequestDetails)
          /\ Len(sample_points) = PassingSamples(RequestDetails)
          /\ ALLOWED_ACTIVITY_TYPES = {} =>
                Len(summary_points) = Len(RequestDetails)

\* under a non-empty allow-set a details request with one listed and one
\* unlisted detail, each with samples, was answered 200
C9_Witness ==
    /\ route = "details" /\ response.status = 200
    /\ ALLOWED_ACTIVITY_TYPES # {}
    /\ Len(RequestDetails) = 2
    /\ Len(summary_points) = 1
    /\ sample_points # <<>>
    /\ Len(sample_points) < Len(GetD(RequestDetails[1], "samples", <<>>))
                            + Len(GetD(RequestDetails[2], "samples", <<>>))

\* a mapping holds no null value
NoNullValue(d) == \A k \in DOMAIN d : d[k] # Null

\* C3: no null in a point.  Every point an ingest handler hands to the store
\* (POST /activity, POST /activity/details summary and sample points) has no
\* null value among its tags and none among its fields.
C3_NoNullInPoint ==
    route \in {"activity", "details"} =>
        \A c \in 1..Len(calls) : \A j \in 1..Len(calls[c].record) :
            /\ NoNullValue(calls[c].record[j].tags)
            /\ NoNullValue(calls[c].record[j].fields)

\* C5: a missing startTimeInSeconds fails POST /activity.  No point is handed
\* to the store without a timestamp, and a request holding an activity that
\* passes the filter and has no startTimeInSeconds ends with 500 and a
\* non-empty errorMessage.
C5_MissingStartTimeFails ==
    route = "activity" =>
        /\ \A c \in 1..Len(calls) : \A j \in 1..Len(calls[c].record) :
              calls[c].record[j].time # Null
        /\ (/\ pc = "done"
            /\ \E i \in 1..Len(RequestActivities) :
                  /\ Passes(Get(RequestActivities[i], "activityType"))
                  /\ Get(RequestActivities[i], "startTimeInSeconds") = Null) =>
              /\ response.status = 500
              /\ response.body.errorMessage # <<>>

\* the activity id a feature is for, under either spelling of the property
FeatureId(f) ==
    IF "activityId" \in DOMAIN f.properties THEN f.properties.activityId
    ELSE f.properties.activityID

\* a row is valid: activityId, latitude and longitude are all non-null
ValidRow(record) ==
    /\ Get(record, "activityId") # Null
    /\ Get(record, "latitudeInDegree") # Null
    /\ Get(record, "longitudeInDegree") # Null

ValidRowsOf(activity_id) ==
    {i \in 1..Len(result) : ValidRow(result[i]) /\ result[i]["activityId"] = activity_id}

RowTime(record) == IF "time" \in DOMAIN record THEN record["time"] ELSE record["_time"]

ResponseFeatures == response.body.features

GeoAnswered == route \in {"geojson_sql", "geojson_flux"} /\ response.status = 200

\* C4: coordinate counts.  In a 200 answer of GET /activity/geojson every
\* feature has as many coordinates as its activity has valid rows (rows whose
\* activityId, latitude and longitude are non-null, zero being a value), and
\* every activity with a valid row has a feature.
C4_CoordinateCount ==
    GeoAnswered =>
        /\ \A f \in 1..Len(ResponseFeatures) :
              Len(ResponseFeatures[f].geometry.coordinates)
                  = Cardinality(ValidRowsOf(FeatureId(ResponseFeatures[f])))
        /\ \A i \in 1..Len(result) :
              ValidRow(result[i]) =>
                  \E f \in 1..Len(ResponseFeatures) :
                      FeatureId(ResponseFeatures[f]) = result[i]["activityId"]

\* C6: start and end time.  In a 200 answer of GET /activity/geojson every
\* feature carries startTime, the least timestamp of its activity's valid
\* rows, and endTime, the greatest.
C6_StartEndTime ==
    GeoAnswered =>
        \A f \in 1..Len(ResponseFeatures) :
            LET props == ResponseFeatures[f].properties
                rows == ValidRowsOf(FeatureId(ResponseFeatures[f]))
                start == IF "startTime" \in DOMAIN props THEN props["startTime"]
                         ELSE Get(props, "start_time")
                end == IF "endTime" \in DOMAIN props THEN props["endTime"]
                       ELSE Get(props, "end_time")
            IN  /\ start # Null /\ end # Null
                /\ \E i \in rows : RowTime(result[i]) = start
                /\ \E i \in rows : RowTime(result[i]) = end
                /\ \A i \in rows :
                      RowTime(result[i]) # Null =>
                          /\ start.v <= RowTime(result[i]).v
                          /\ end.v >= RowTime(result[i]).v

\* C10: the activityId property.  In a 200 answer of GET /activity/geojson
\* every feature has a property named exactly activityId, whose value is the
\* activity id of rows of the result.
C10_ActivityIdProperty ==
    GeoAnswered =>
        \A f \in 1..Len(ResponseFeatures) :
            /\ "activityId" \in DOMAIN ResponseFeatures[f].properties
            /\ \E i \in 1..Len(result) :
                  Get(result[i], "activityId") = ResponseFeatures[f].properties["activityId"]

=============================================================================
